---- MODULE Spec2Model ----
(***************************************************************************)
(* gwosc/api.py: fetch_json and fetch_catalog_event_json, the resolver of  *)
(* the data-release version of a catalog event, run by concurrent callers  *)
(* against a host that publishes releases.                                 *)
(***************************************************************************)
EXTENDS Integers, Sequences, FiniteSets, TLC

\* Highest release number the host's catalog may hold.
MaxV == 3

DEFAULT_URL == "https://www.gw-openscience.org"

Events == {"GW150914", "GW999999"}

Calls == {"c1", "c2"}

\* How the host answers a URL that is no published release:
\*   http404  HTTP 404: urlopen raises HTTPError, a URLError
\*   html     HTTP 200 with a body that is not JSON
\*   reset    the connection drops while the response is read: response.read()
\*            raises http.client.IncompleteRead, neither URLError nor ValueError
\*   json     HTTP 200 with a JSON document, whatever the path (a catch-all)
Fallbacks == {"http404", "html", "reset", "json"}

VARIABLES
    avail,      \* host: event -> set of published release numbers
    fallback,   \* host: its answer for everything else
    pc,         \* call -> idle | explicit | build | fetch | returned | raised
    args,       \* call -> [event, passed, version] of fetch_catalog_event_json
    thisv,      \* call -> local thisv
    url,        \* call -> local url
    data,       \* call -> local data
    result,     \* call -> what the call returned or raised
    fetches,    \* call -> the fetch_json calls it made: <<[url, out], ...>>
    startMax    \* call -> highest release published when the call began

vars == <<avail, fallback, pc, args, thisv, url, data, result, fetches, startMax>>

MaxOf(S) == IF S = {} THEN 0 ELSE CHOOSE m \in S : \A x \in S : x <= m

----------------------------------------------------------------------------
\* Python values

\* The version argument: None, or an int.
PyNone == [none |-> TRUE, n |-> 0]

PyInt(k) == [none |-> FALSE, n |-> k]

\* A local name with no value yet.
Unbound == [event |-> "<unbound>", version |-> 0]

NoExc == [class |-> "", args |-> <<>>]

Exc(class, msg) == [class |-> class, args |-> <<msg>>]

\* What a function call comes to: a value returned or an exception raised.
Returns(v) == [ok |-> TRUE, value |-> v, exc |-> NoExc]

Raises(e) == [ok |-> FALSE, value |-> Unbound, exc |-> e]

Pending == [ok |-> FALSE, value |-> Unbound, exc |-> NoExc]

----------------------------------------------------------------------------
\* The host

\* The record the catalog holds for release v of event e.
Rec(e, v) == [event |-> e, version |-> v]

CatchAllDoc == [event |-> "*", version |-> 0]

ArchiveRoute(e, v) == "/archive/" \o e \o "_R" \o ToString(v) \o "/json/"

\* urlopen(url) and response.read(): the body read, or the exception raised.
urlopen(u) ==
    LET hit == {ev \in Events \X (1..MaxV) :
                    /\ ev[2] \in avail[ev[1]]
                    /\ u = DEFAULT_URL \o ArchiveRoute(ev[1], ev[2])}
    IN  IF hit # {}
        THEN LET ev == CHOOSE x \in hit : TRUE
             IN  [raised |-> FALSE, json |-> TRUE, doc |-> Rec(ev[1], ev[2]),
                  exc |-> NoExc]
        ELSE CASE fallback = "http404" ->
                    [raised |-> TRUE, json |-> FALSE, doc |-> Unbound,
                     exc |-> Exc("URLError", "HTTP Error 404: Not Found")]
               [] fallback = "html" ->
                    [raised |-> FALSE, json |-> FALSE, doc |-> Unbound,
                     exc |-> NoExc]
               [] fallback = "reset" ->
                    [raised |-> TRUE, json |-> FALSE, doc |-> Unbound,
                     exc |-> Exc("HTTPException", "IncompleteRead")]
               [] OTHER ->
                    [raised |-> FALSE, json |-> TRUE, doc |-> CatchAllDoc,
                     exc |-> NoExc]

----------------------------------------------------------------------------
\* fetch_json

\* except ValueError: the parser's error, its message rewritten, raised again.
ParseError(u) ==
    Exc("ValueError",
        "Failed to parse LOSC JSON from " \o u \o ": Expecting value")

fetch_json(u) ==
    LET response == urlopen(u)
    IN  IF response.raised THEN Raises(response.exc)
        ELSE IF response.json THEN Returns(response.doc)
        ELSE Raises(ParseError(u))

----------------------------------------------------------------------------
\* fetch_catalog_event_json

\* Bug: the URL of the event with no release in it.
UnversionedURL(event, version, host) == host \o "/archive/" \o event \o "/json/"

_catalog_event_url(event, version, host) ==
    host \o "/archive/" \o event \o "_R" \o ToString(version) \o "/json/"

\* Bug: "if version is not None:", which takes 0 for an explicit version.
IsNotNone(version) == ~version.none

\* if version:
Truthy(version) == ~version.none /\ version.n # 0

\* Bug: "except URLError:", which lets the parser's ValueError through.
CaughtURLErrorOnly(exc) == exc.class = "URLError"

\* except (URLError, ValueError):
Caught(exc) == exc.class \in {"URLError", "ValueError"}

\* Bug: "if thisv == 2:", the first version taken to be the second.
FirstVersionOffByOne(v) == v = 2

\* if thisv == 1:
FirstVersion(v) == v = 1

\* Bug: the error raised as another class.
NoCatalogDataAsLookupError(event) ==
    Exc("LookupError", "no catalog datasets found for '" \o event \o "'")

\* raise ValueError("no catalog datasets found for {!r}".format(event))
NoCatalogData(event) ==
    Exc("ValueError", "no catalog datasets found for '" \o event \o "'")

\* return data
ReturnData(d) ==
    IF d = Unbound
    THEN Raises(Exc("UnboundLocalError", "data"))
    ELSE Returns(d)

\* Bug: "thisv += 2", every other release skipped.
SkipVersion(v) == IF v <= MaxV THEN v + 2 ELSE v

\* Bug: the counter never advanced.
SameVersion(v) == v

\* thisv += 1.  Python's int has no bound; the model's counter stops at
\* MaxV + 1, which stands for every release number above MaxV.
NextVersion(v) == IF v <= MaxV THEN v + 1 ELSE v

\* Bug: the first record fetched kept, later ones dropped.
AssignOnce(old, new) == IF old = Unbound THEN new ELSE old

\* data = fetch_json(url): the name is bound to the new value.
Assign(old, new) == new

\* Bug: the name is a module global, one value for all calls.
SetShared(f, c, v) == [d \in DOMAIN f |-> v]

\* An assignment to a local of call c.
SetLocal(f, c, v) == [f EXCEPT ![c] = v]

\* The record of the first MaxV + 1 fetches of a call.
Log(f, entry) == IF Len(f) < MaxV + 1 THEN Append(f, entry) ELSE f

Done(c) == pc[c] \in {"returned", "raised"}

Finish(c, out) ==
    /\ result' = [result EXCEPT ![c] = out]
    /\ pc' = [pc EXCEPT ![c] = IF out.ok THEN "returned" ELSE "raised"]

\* def fetch_catalog_event_json(event, version=None, host=DEFAULT_URL),
\* to the test of version and the start of the loop.
Call(c) ==
    /\ pc[c] = "idle"
    /\ \E e \in Events, passed \in BOOLEAN,
          v \in {PyNone} \cup {PyInt(k) : k \in 0..(MaxV + 1)} :
          LET version == IF passed THEN v ELSE PyNone
          IN  /\ passed \/ v = PyNone
              /\ args' = [args EXCEPT ![c] =
                            [event |-> e, passed |-> passed, version |-> version]]
              /\ startMax' = [startMax EXCEPT ![c] = MaxOf(avail[e])]
              /\ IF Truthy(version)
                 THEN /\ pc' = [pc EXCEPT ![c] = "explicit"]
                      /\ UNCHANGED thisv
                 ELSE /\ pc' = [pc EXCEPT ![c] = "build"]
                      /\ thisv' = SetLocal(thisv, c, 1)
    /\ UNCHANGED <<avail, fallback, url, data, result, fetches>>

\* return fetch_json(_catalog_event_url(event, version, host=host))
Explicit(c) ==
    /\ pc[c] = "explicit"
    /\ LET u == _catalog_event_url(args[c].event, args[c].version.n, DEFAULT_URL)
           out == fetch_json(u)
       IN  /\ url' = SetLocal(url, c, u)
           /\ fetches' = [fetches EXCEPT ![c] = Log(@, [url |-> u, out |-> out])]
           /\ Finish(c, out)
    /\ UNCHANGED <<avail, fallback, args, thisv, data, startMax>>

\* url = _catalog_event_url(event, thisv, host=host)
Build(c) ==
    /\ pc[c] = "build"
    /\ url' = SetLocal(url, c,
                       _catalog_event_url(args[c].event, thisv[c], DEFAULT_URL))
    /\ pc' = [pc EXCEPT ![c] = "fetch"]
    /\ UNCHANGED <<avail, fallback, args, thisv, data, result, fetches, startMax>>

\* try: data = fetch_json(url) ... except ...: ...; thisv += 1
Fetch(c) ==
    /\ pc[c] = "fetch"
    /\ LET out == fetch_json(url[c])
       IN  /\ fetches' = [fetches EXCEPT ![c] = Log(@, [url |-> url[c], out |-> out])]
           /\ IF out.ok
              THEN /\ data' = SetLocal(data, c, Assign(data[c], out.value))
                   /\ thisv' = SetLocal(thisv, c, NextVersion(thisv[c]))
                   /\ pc' = [pc EXCEPT ![c] = "build"]
                   /\ UNCHANGED result
              ELSE /\ Finish(c, IF Caught(out.exc)
                                THEN IF FirstVersion(thisv[c])
                                     THEN Raises(NoCatalogData(args[c].event))
                                     ELSE ReturnData(data[c])
                                ELSE Raises(out.exc))
                   /\ UNCHANGED <<data, thisv>>
    /\ UNCHANGED <<avail, fallback, args, url, startMax>>

\* The host publishes the next release of an event.
Publish(e) ==
    /\ MaxOf(avail[e]) < MaxV
    /\ avail' = [avail EXCEPT ![e] = @ \cup {MaxOf(@) + 1}]
    /\ UNCHANGED <<fallback, pc, args, thisv, url, data, result, fetches, startMax>>

Step(c) == Explicit(c) \/ Build(c) \/ Fetch(c)

Init ==
    /\ avail \in [Events -> SUBSET (1..MaxV)]
    /\ fallback \in Fallbacks
    /\ pc = [c \in Calls |-> "idle"]
    /\ args = [c \in Calls |-> [event |-> "", passed |-> FALSE, version |-> PyNone]]
    /\ thisv = [c \in Calls |-> 0]
    /\ url = [c \in Calls |-> ""]
    /\ data = [c \in Calls |-> Unbound]
    /\ result = [c \in Calls |-> Pending]
    /\ fetches = [c \in Calls |-> <<>>]
    /\ startMax = [c \in Calls |-> 0]

\* One caller, and the host publishing as it runs.
Next ==
    \/ Call("c1")
    \/ Step("c1")
    \/ \E e \in Events : Publish(e)

Spec == Init /\ [][Next]_vars

\* A call that has begun keeps running: each fetch completes.  The second
\* event starts with no release and gets its releases by publication.
InitLive == Init /\ avail["GW999999"] = {}

FairSpec == InitLive /\ [][Next]_vars /\ WF_vars(Step("c1"))

\* Two callers at once, against a catalog that does not change.
InitConcurrent ==
    /\ Init
    /\ avail["GW999999"] = {}
    /\ fallback # "json"

NextConcurrent ==
    \/ \E c \in Calls : Call(c)
    \/ \E c \in Calls : Step(c)

SpecConcurrent == InitConcurrent /\ [][NextConcurrent]_vars

\* fetch_catalog_event_json run from call to end with no other step between:
\* the URLs it fetches, in order, and what it returns or raises.
RECURSIVE SoloLoop(_, _, _, _)
SoloLoop(event, v, last, urls) ==
    LET u == _catalog_event_url(event, v, DEFAULT_URL)
        out == fetch_json(u)
    IN  IF out.ok
        THEN SoloLoop(event, NextVersion(v), Assign(last, out.value),
                      Append(urls, u))
        ELSE [urls |-> Append(urls, u),
              result |-> IF Caught(out.exc)
                         THEN IF FirstVersion(v)
                              THEN Raises(NoCatalogData(event))
                              ELSE ReturnData(last)
                         ELSE Raises(out.exc)]

Solo(a) ==
    IF Truthy(a.version)
    THEN LET u == _catalog_event_url(a.event, a.version.n, DEFAULT_URL)
         IN  [urls |-> <<u>>, result |-> fetch_json(u)]
    ELSE SoloLoop(a.event, 1, Unbound, <<>>)

----------------------------------------------------------------------------
\* What the claims speak of

\* The URL of release v of event e, as the host serves it.
VersionedURL(e, v) == DEFAULT_URL \o ArchiveRoute(e, v)

Auto(c) == pc[c] # "idle" /\ ~Truthy(args[c].version)

ExplicitCall(c) == pc[c] # "idle" /\ Truthy(args[c].version)

\* The fetches of call c that went to release v of its event.
Probed(c, v) ==
    {i \in 1..Len(fetches[c]) : fetches[c][i].url = VersionedURL(args[c].event, v)}

Succeeded(c, v) == \E i \in Probed(c, v) : fetches[c][i].out.ok

Failed(c, v) == \E i \in Probed(c, v) : ~fetches[c][i].out.ok

FailedWith(c, v, classes) ==
    \E i \in Probed(c, v) :
        ~fetches[c][i].out.ok /\ fetches[c][i].out.exc.class \in classes

FetchedRecord(c, v) ==
    fetches[c][CHOOSE i \in Probed(c, v) : fetches[c][i].out.ok].out.value

FailureOf(c, v) ==
    fetches[c][CHOOSE i \in Probed(c, v) : ~fetches[c][i].out.ok].out.exc

\* The error of automatic resolution that found no release of event e.
IsNoCatalogData(out, e) ==
    /\ ~out.ok
    /\ out.exc.class = "ValueError"
    /\ out.exc.args = <<"no catalog datasets found for '" \o e \o "'">>

Contiguous(S) == S = 1..MaxOf(S)

----------------------------------------------------------------------------
\* C1, as stated: in automatic resolution, if the probes of releases 1..k
\* succeed and the probe of release k+1 fails, the call returns exactly the
\* record fetched for release k, whatever the failure was.
C1_ReturnsLastOnAnyFailure ==
    \A c \in Calls : \A k \in 1..MaxV :
        (Auto(c) /\ (\A j \in 1..k : Succeeded(c, j)) /\ Failed(c, k + 1))
            => result[c] = Returns(FetchedRecord(c, k))

\* C1, amended: if the probes of releases 1..k succeed and the probe of
\* release k+1 fails with a URLError or a ValueError, the call returns exactly
\* the record fetched for release k; if it fails with any other exception,
\* the call raises that exception.
C1_ReturnsLastOnCaughtFailure ==
    \A c \in Calls : \A k \in 1..MaxV :
        (Auto(c) /\ (\A j \in 1..k : Succeeded(c, j)) /\ Failed(c, k + 1))
            => IF FailedWith(c, k + 1, {"URLError", "ValueError"})
               THEN result[c] = Returns(FetchedRecord(c, k))
               ELSE result[c] = Raises(FailureOf(c, k + 1))

\* Releases 1 and 2 fetched, release 3 answered 404: the record of release 2.
C1_Witness ==
    \E c \in Calls :
        /\ Auto(c) /\ args[c].event = "GW150914"
        /\ Succeeded(c, 1) /\ Succeeded(c, 2)
        /\ FailedWith(c, 3, {"URLError"})
        /\ pc[c] = "returned"
        /\ result[c] = Returns(Rec("GW150914", 2))

\* C2, as stated: in automatic resolution, if the probe of release 1 fails,
\* the call raises NoCatalogData naming the event, whatever the failure was.
C2_NoCatalogDataOnAnyFailure ==
    \A c \in Calls :
        (Auto(c) /\ Failed(c, 1)) => IsNoCatalogData(result[c], args[c].event)

\* C2, amended: if the probe of release 1 fails with a URLError or a
\* ValueError, the call raises NoCatalogData naming the event and returns no
\* record; if it fails with any other exception, the call raises that
\* exception.
C2_NoCatalogDataOnCaughtFailure ==
    \A c \in Calls :
        (Auto(c) /\ Failed(c, 1))
            => /\ pc[c] = "raised"
               /\ IF FailedWith(c, 1, {"URLError", "ValueError"})
                  THEN IsNoCatalogData(result[c], args[c].event)
                  ELSE result[c] = Raises(FailureOf(c, 1))

\* Release 1 of GW999999 answered with a body that is no JSON.
C2_Witness ==
    \E c \in Calls :
        /\ Auto(c) /\ args[c].event = "GW999999"
        /\ FailedWith(c, 1, {"ValueError"})
        /\ pc[c] = "raised"
        /\ IsNoCatalogData(result[c], "GW999999")

\* C3: a call with an explicit version V >= 1 makes exactly one fetch, to
\* {host}/archive/{E}_R{V}/json/, and its outcome is that fetch's outcome:
\* the record returned, or the fetcher's exception raised unchanged.
C3_ExplicitVersionBypass ==
    \A c \in Calls :
        (ExplicitCall(c) /\ args[c].version.n >= 1)
            => /\ Len(fetches[c]) <= 1
               /\ Done(c) <=> Len(fetches[c]) = 1
               /\ Done(c) =>
                    /\ fetches[c][1].url =
                          VersionedURL(args[c].event, args[c].version.n)
                    /\ result[c] = fetches[c][1].out

\* version=1 given, release 1 answered with a body that is no JSON.
C3_Witness ==
    \E c \in Calls :
        /\ ExplicitCall(c) /\ args[c].event = "GW150914" /\ args[c].version.n = 1
        /\ pc[c] = "raised"
        /\ Len(fetches[c]) = 1
        /\ result[c].exc.class = "ValueError"
        /\ result[c].exc.args =
              <<"Failed to parse LOSC JSON from "
                \o "https://www.gw-openscience.org/archive/GW150914_R1/json/"
                \o ": Expecting value">>

\* C4: in automatic resolution the n-th fetch goes to release n; every fetch
\* but the last succeeded; the call is over exactly when its last fetch failed;
\* and the fetch about to be made goes to the release after the last one.
C4_MonotonicProbing ==
    \A c \in Calls :
        Auto(c) =>
            LET n == Len(fetches[c])
            IN  /\ \A i \in 1..n :
                     /\ fetches[c][i].url = VersionedURL(args[c].event, i)
                     /\ i < n => fetches[c][i].out.ok
                /\ Done(c) <=> (n >= 1 /\ ~fetches[c][n].out.ok)
                /\ (pc[c] = "fetch" /\ n <= MaxV)
                      => url[c] = VersionedURL(args[c].event, n + 1)

\* Three probes, 1, 2 and 3, the third the first to fail.
C4_Witness ==
    \E c \in Calls :
        /\ Auto(c) /\ Done(c)
        /\ Len(fetches[c]) = 3
        /\ fetches[c][1].out.ok /\ fetches[c][2].out.ok /\ ~fetches[c][3].out.ok

\* C5, as stated: whenever no version is given and at least one release of
\* the event is available, the call returns the record of the highest
\* available release, whatever the set of available releases.  (The host
\* answers 404 for the others and publishes nothing while the call runs.)
C5_HighestAvailable ==
    \A c \in Calls :
        LET e == args[c].event
        IN  (/\ Auto(c) /\ Done(c)
             /\ fallback = "http404"
             /\ avail[e] # {}
             /\ MaxOf(avail[e]) = startMax[c])
                => result[c] = Returns(Rec(e, MaxOf(avail[e])))

\* C6: a call given version 0 or None resolves automatically: it never builds
\* or fetches the URL of release 0, its first fetch goes to release 1, and
\* against the same catalog it ends as the call with the version left out.
C6_FalsyVersionIsAutomatic ==
    \A c \in Calls :
        LET e == args[c].event
        IN  (/\ pc[c] # "idle" /\ args[c].passed
             /\ (args[c].version.none \/ args[c].version.n = 0))
                => /\ url[c] # VersionedURL(e, 0)
                   /\ \A i \in 1..Len(fetches[c]) :
                        fetches[c][i].url # VersionedURL(e, 0)
                   /\ pc[c] # "explicit"
                   /\ Len(fetches[c]) >= 1 => fetches[c][1].url = VersionedURL(e, 1)
                   /\ \A d \in Calls :
                        (/\ pc[d] # "idle" /\ ~args[d].passed
                         /\ args[d].event = e
                         /\ Done(c) /\ Done(d))
                            => /\ result[c] = result[d]
                               /\ fetches[c] = fetches[d]

\* version=0 beside a call with no version: both return release 2.
C6_Witness ==
    \E c, d \in Calls :
        /\ args[c].passed /\ args[c].version = PyInt(0)
        /\ pc[d] # "idle" /\ ~args[d].passed
        /\ args[c].event = "GW150914" /\ args[d].event = "GW150914"
        /\ pc[c] = "returned" /\ pc[d] = "returned"
        /\ result[c] = Returns(Rec("GW150914", 2))
        /\ result[d] = result[c]

\* An automatic resolution that found no version: its probe of release 1
\* failed with an exception the loop catches.
FoundNoVersion(c) ==
    /\ Auto(c) /\ pc[c] = "raised"
    /\ FailedWith(c, 1, {"URLError", "ValueError"})

\* A call with an explicit version that raised its fetch's exception.
ExplicitRaised(d) == ExplicitCall(d) /\ pc[d] = "raised"

\* C7, as stated: the kind of NoCatalogData differs from the kind of every
\* error an explicitly versioned call propagates, transport or malformed.
C7_NoCatalogDataIsDistinctKind ==
    \A c, d \in Calls :
        (FoundNoVersion(c) /\ ExplicitRaised(d))
            => result[c].exc.class # result[d].exc.class

\* C7, amended: NoCatalogData is raised as a ValueError.  Its kind differs
\* from that of a transport error an explicit call propagates, and is the
\* kind of the malformed-response error; those two differ in message only.
C7_NoCatalogDataIsValueError ==
    \A c, d \in Calls :
        (FoundNoVersion(c) /\ ExplicitRaised(d))
            => /\ result[c].exc.class = "ValueError"
               /\ (result[c].exc.class = result[d].exc.class)
                     <=> (fallback = "html")
               /\ result[c].exc.args # result[d].exc.args

\* NoCatalogData beside a propagated malformed-response error.
C7_Witness ==
    \E c, d \in Calls :
        /\ FoundNoVersion(c) /\ ExplicitRaised(d)
        /\ fallback = "html"
        /\ result[d].exc.class = "ValueError"

URLsOf(c) == [i \in 1..Len(fetches[c]) |-> fetches[c][i].url]

\* C8: with two calls running at once against a catalog that does not
\* change, each call fetches the URLs, in the order, and ends with the result
\* it has when it runs alone.
C8_CallsAreIndependent ==
    \A c \in Calls :
        pc[c] # "idle" =>
            LET alone == Solo(args[c])
                n == Len(fetches[c])
            IN  /\ n <= Len(alone.urls)
                /\ URLsOf(c) = SubSeq(alone.urls, 1, n)
                /\ Done(c) => /\ n = Len(alone.urls)
                              /\ result[c] = alone.result
                /\ ~Done(c) => result[c] = Pending

\* One call has returned release 2 while the other, begun before that call
\* made its last fetch, is in the middle of its own probing.
C8_Witness ==
    \E c, d \in Calls :
        /\ c # d
        /\ Auto(c) /\ pc[c] = "returned"
        /\ result[c] = Returns(Rec("GW150914", 2))
        /\ Auto(d) /\ pc[d] = "fetch" /\ Len(fetches[d]) = 1
        /\ args[d].event = "GW150914"

\* C9, as stated: every automatic resolution that has begun eventually
\* returns or raises, whatever the host does.
C9_AlwaysTerminates ==
    \A c \in Calls : (Auto(c) /\ ~Done(c)) ~> Done(c)

\* C9, amended: every automatic resolution eventually returns or raises
\* provided some probe fails, which it does unless the host answers every
\* versioned URL with a JSON document; against such a host the loop never ends.
C9_TerminatesWhenAProbeFails ==
    \A c \in Calls : (Auto(c) /\ ~Done(c) /\ fallback # "json") ~> Done(c)

\* An automatic resolution over after three probes.
C9_Witness ==
    \E c \in Calls :
        /\ Auto(c) /\ Done(c)
        /\ fallback # "json"
        /\ Len(fetches[c]) = 3
        /\ thisv[c] = 3

\* C10: with a host that publishes releases of an event one after the other
\* from 1 and removes none, the automatic resolution that returns does so
\* with the record of the release that is the highest published when its last
\* probe fails, which is at least the highest published when the call began;
\* and it raises NoCatalogData only when no release is published as release 1
\* is probed.
C10_ResolutionRacingPublication ==
    [][\A c \in Calls :
         LET e == args[c].event
         IN  (/\ Auto(c) /\ pc[c] = "fetch" /\ Done(c)'
              /\ Contiguous(avail[e]))
                 => /\ result'[c].ok =>
                         /\ MaxOf(avail[e]) >= 1
                         /\ result'[c] = Returns(Rec(e, MaxOf(avail[e])))
                         /\ MaxOf(avail[e]) >= startMax[c]
                    /\ IsNoCatalogData(result'[c], e) => avail[e] = {}
      ]_vars

\* A call begun when release 1 was the latest returns release 3, published
\* with release 2 while it ran.
C10_Witness ==
    \E c \in Calls :
        /\ Auto(c) /\ pc[c] = "returned"
        /\ startMax[c] = 1
        /\ Contiguous(avail[args[c].event])
        /\ result[c] = Returns(Rec(args[c].event, 3))

====
